---- MODULE Spec2Model ----
(***************************************************************************)
(* Model of the hefeng-mcp-server tool router.  The repository holds three *)
(* near-duplicate variants of the same server:                             *)
(*   "v125"  src/src/index.ts       (server version 1.2.5, key in query)    *)
(*   "v162"  src/unnamed/part_000   (server version 1.6.2, key in header)   *)
(*   "v133"  src/unnamed/part_001   (server version 1.3.3, pinyin lookup)   *)
(*                                                                         *)
(* Strings are modelled as sequences of text pieces: a template literal    *)
(* `a ${x} b` is <<"a ">> \o x \o <<" b">>.  The Chinese literals of the    *)
(* source are written as ASCII glosses (the module language has no         *)
(* non-ASCII strings); Han characters are written by code point.           *)
(***************************************************************************)
EXTENDS Integers, Sequences, FiniteSets, TLC

VARIABLES
    variant,                  \* which of the three source files runs
    HEFENG_WEATHER_API_URL,   \* process-wide configuration
    HEFENG_GEO_API_URL,
    HEFENG_API_KEY,
    pc,                       \* handler position: idle, geo, weather, done
    name,                     \* request.params.name
    args,                     \* request.params.arguments
    frame,                    \* the handler's local variables
    fetchCalls,               \* fetch() calls made by this invocation, in order
    responses,                \* what fetch() answered, in the same order
    outcome,                  \* what the handler produced: result or fault
    log,                      \* console lines written by the latest step
    previous,                 \* history: the invocation SpecRepeat plays again
    suspended                 \* SpecInterleave: the handler that is not running

vars == <<variant, HEFENG_WEATHER_API_URL, HEFENG_GEO_API_URL, HEFENG_API_KEY,
          pc, name, args, frame, fetchCalls, responses, outcome, log, previous, suspended>>

config == <<variant, HEFENG_WEATHER_API_URL, HEFENG_GEO_API_URL, HEFENG_API_KEY>>

(***************************************************************************)
(* Bounds and sample inputs                                                *)
(***************************************************************************)
MaxRecords == 2      \* longest hourly / daily / location array upstream sends
MaxRepeatRecords == 1    \* the same, for an invocation that is played again

Variants == {"v125", "v162", "v133"}

SecretKey == "SECRET-KEY"            \* the value given as --apiKey=
ApiUrl    == "https://api.example"   \* the value given as --apiUrl=

\* Location tokens: sequences of units.  U+5317 U+4EAC is the Han name of
\* Beijing, U+3068 a kana, "B" an upper-case Latin letter; TokEmpty is "".
TokEmpty  == <<>>
TokId     == <<"101010100">>
TokCoord  == <<"116.41", ",", "39.92">>
TokLatin  == <<"beijing">>
TokHan    == <<"U+5317", "U+4EAC">>
TokMixed  == <<"U+5317", " ", "B">>
TokKana   == <<"U+3068">>
Tokens    == {TokEmpty, TokId, TokCoord, TokLatin, TokHan, TokMixed, TokKana}

HanChars  == {"U+5317", "U+4EAC"}

ToolNames == {"get_weather", "get-weather", "get_location_id", "frobnicate"}

(***************************************************************************)
(* Generic helpers                                                         *)
(***************************************************************************)
Range(s) == {s[i] : i \in 1..Len(s)}

SeqsUpTo(S, n) == UNION {[1..k -> S] : k \in 0..n}

\* sub occurs in text as a contiguous run of pieces
Contains(text, sub) ==
    \E i \in 0..(Len(text) - Len(sub)) :
        \A j \in 1..Len(sub) : text[i + j] = sub[j]

\* Array.prototype.join over an array of texts
RECURSIVE Join(_, _)
Join(parts, sep) ==
    IF Len(parts) = 0 THEN <<>>
    ELSE IF Len(parts) = 1 THEN parts[1]
    ELSE parts[1] \o sep \o Join(Tail(parts), sep)

Has(o, f) == f \in DOMAIN o

(***************************************************************************)
(* JSON values.  null, a primitive (truthy or falsy), an array, or an      *)
(* object: a record whose domain is the set of keys present.               *)
(***************************************************************************)
JNull       == [t |-> "null"]
JPrim(b)    == [t |-> "prim", truthy |-> b]
JArray      == [t |-> "array"]
JObj(o)     == [t |-> "obj", o |-> o]
JInvalid    == [t |-> "invalid"]       \* text that JSON.parse rejects

IsObj(v)    == v.t = "obj"
\* JavaScript truthiness of a JSON value
Truthy(v)   == v.t \in {"array", "obj"} \/ (v.t = "prim" /\ v.truthy)
\* property read v.f : the string read, or "undefined"
Undefined   == "<undefined>"
StrField(v, f) == IF IsObj(v) /\ Has(v.o, f) THEN v.o[f] ELSE Undefined
\* truthiness of a string-or-undefined value
StrTruthy(s) == s # Undefined /\ s # ""


TextField(v, f) == IF IsObj(v) /\ Has(v.o, f) THEN v.o[f] ELSE <<>>

(***************************************************************************)
(* Tool arguments and the two zod schemas                                  *)
(***************************************************************************)
Days       == {"now", "24h", "72h", "168h", "3d", "7d", "10d", "15d", "30d"}
HourlyDays == {"24h", "72h", "168h"}

ArgsUndefined == [t |-> "undefined"]
NumArg        == [t |-> "num"]                 \* a value that is no string
StrArg(s)     == [t |-> "str", s |-> s]

LocationArgVals == {NumArg} \cup {StrArg(tok) : tok \in Tokens}
DaysArgVals     == {NumArg} \cup {StrArg(<<d>>) : d \in Days \cup {"5d"}}

\* argument objects: {}, {city_name}, {location}, {days}, {location, days}
ArgObjects ==
    {[t |-> "obj", o |-> <<>>]}
    \cup {[t |-> "obj", o |-> [city_name |-> v]] : v \in LocationArgVals}
    \cup {[t |-> "obj", o |-> [location |-> v]] : v \in LocationArgVals}
    \cup {[t |-> "obj", o |-> [days |-> d]] : d \in DaysArgVals}
    \cup {[t |-> "obj", o |-> [location |-> v, days |-> d]] :
             v \in LocationArgVals, d \in DaysArgVals}

AllArgs == {ArgsUndefined} \cup ArgObjects

Issue(path, message) == [path |-> path, message |-> message]

EnumList == "'now' | '24h' | '72h' | '168h' | '3d' | '7d' | '10d' | '15d' | '30d'"

\* z.string() on one key of the argument object
StringIssues(o, key) ==
    IF ~Has(o, key) THEN <<Issue(<<key>>, <<"Required">>)>>
    ELSE IF o[key].t # "str"
         THEN <<Issue(<<key>>, <<"Expected string, received number">>)>>
    ELSE <<>>

\* z.enum([...]).default('now') on the key days
DaysIssues(o) ==
    IF ~Has(o, "days") THEN <<>>
    ELSE IF o.days.t # "str"
         THEN <<Issue(<<"days">>, <<"Expected ", EnumList, ", received number">>)>>
    ELSE IF o.days.s[1] \notin Days
         THEN <<Issue(<<"days">>,
                      <<"Invalid enum value. Expected ", EnumList, ", received '">>
                      \o o.days.s \o <<"'">>)>>
    ELSE <<>>

DaysDefault(o) == IF Has(o, "days") THEN o.days.s[1] ELSE "now"

LocationIdArgumentsSchema(a) ==
    IF a.t # "obj" THEN [ok |-> FALSE, issues |-> <<Issue(<<>>, <<"Required">>)>>]
    ELSE LET is == StringIssues(a.o, "city_name") IN
         IF is # <<>> THEN [ok |-> FALSE, issues |-> is]
         ELSE [ok |-> TRUE, city_name |-> a.o.city_name.s]

WeatherArgumentsSchema(a) ==
    IF a.t # "obj" THEN [ok |-> FALSE, issues |-> <<Issue(<<>>, <<"Required">>)>>]
    ELSE LET is == StringIssues(a.o, "location") \o DaysIssues(a.o) IN
         IF is # <<>> THEN [ok |-> FALSE, issues |-> is]
         ELSE [ok |-> TRUE, location |-> a.o.location.s, days |-> DaysDefault(a.o)]

\* error.errors.map(e => `${e.path.join(".")}: ${e.message}`).join(sep)
IssueText(e) == Join([i \in 1..Len(e.path) |-> <<e.path[i]>>], <<".">>)
                \o <<": ">> \o e.message
ZodErrorMessages(issues, sep) ==
    Join([i \in 1..Len(issues) |-> IssueText(issues[i])], <<sep>>)

(***************************************************************************)
(* Transliteration (variant v133)                                          *)
(***************************************************************************)
\* /[一-龥]/.test(text)
containsChineseMutant(text) ==
    \E i \in 1..Len(text) : text[i] \in HanChars \cup {",", " "}
containsChinese(text) == \E i \in 1..Len(text) : text[i] \in HanChars

\* the pinyin collaborator: first reading of a Han character in
\* STYLE_NORMAL; every other unit is passed through
PinyinUnit(u) == CASE u = "U+5317" -> "bei"
                   [] u = "U+4EAC" -> "jing"
                   [] OTHER -> u
toLowerCase(u) == IF u = "B" THEN "b" ELSE u

convertToPinyin(chineseText) ==
    [i \in 1..Len(chineseText) |-> toLowerCase(PinyinUnit(chineseText[i]))]


(***************************************************************************)
(* Upstream: what fetch() can answer                                       *)
(***************************************************************************)
RecordIds == {"r1", "r2"}
Series    == SeqsUpTo(RecordIds, MaxRecords)
Codes     == {"200", "400", ""}

\* candidates of the geocoding endpoint; the second lacks id and adm2 and
\* has an empty adm1
LocationRecord(r) ==
    IF r = "r1"
    THEN [name |-> "Beijing", id |-> "101010100", lat |-> "39.90", lon |-> "116.40",
          adm2 |-> "Beijing", adm1 |-> "Beijing Shi", country |-> "China"]
    ELSE [name |-> "Chaoyang", lat |-> "41.57", lon |-> "120.45",
          adm1 |-> "", country |-> "China"]

NowRecord ==
    [obsTime |-> "2024-01-01T08:00+08:00", temp |-> "5", feelsLike |-> "2",
     text |-> "Cloudy", windDir |-> "N", windScale |-> "3", humidity |-> "40",
     precip |-> "0.0", pressure |-> "1020", vis |-> "10"]

HourlyRecord(r) ==
    IF r = "r1"
    THEN [fxTime |-> "2024-01-01T09:00+08:00", temp |-> "6", text |-> "Sunny",
          windDir |-> "NE", windScale |-> "1-2", humidity |-> "35", pop |-> "10"]
    ELSE [fxTime |-> "2024-01-01T10:00+08:00", temp |-> "7", text |-> "Rain",
          windDir |-> "S", windScale |-> "3-4", humidity |-> "80"]

DailyRecord(r) ==
    IF r = "r1"
    THEN [fxDate |-> "2024-01-01", tempMax |-> "8", tempMin |-> "-2",
          textDay |-> "Sunny", textNight |-> "Clear", windDirDay |-> "N",
          windScaleDay |-> "1-2", windDirNight |-> "NW", windScaleNight |-> "3",
          humidity |-> "30", precip |-> "0.0", uvIndex |-> "2",
          sunrise |-> "07:36", sunset |-> "16:59"]
    ELSE [fxDate |-> "2024-01-02", tempMax |-> "4", tempMin |-> "-5",
          textDay |-> "Snow", textNight |-> "Cloudy", windDirDay |-> "E",
          windScaleDay |-> "2", windDirNight |-> "SE", windScaleNight |-> "1",
          humidity |-> "70", precip |-> "1.2", uvIndex |-> "1"]

WithCode(c, o) == IF c = "absent" THEN o ELSE [code |-> c] @@ o

GeoObjects ==
    {WithCode(c, <<>>) : c \in Codes \cup {"absent"}}
    \cup {WithCode(c, [location |-> [i \in 1..Len(s) |-> LocationRecord(s[i])]]) :
             c \in Codes \cup {"absent"}, s \in Series}

PayloadOf(hasNow, hasHourly, hasDaily, s) ==
    (IF hasNow THEN [now |-> NowRecord] ELSE <<>>)
    @@ (IF hasHourly THEN [hourly |-> [i \in 1..Len(s) |-> HourlyRecord(s[i])]] ELSE <<>>)
    @@ (IF hasDaily THEN [daily |-> [i \in 1..Len(s) |-> DailyRecord(s[i])]] ELSE <<>>)

WeatherObjects ==
    {WithCode(c, PayloadOf(n, h, d, s)) :
        c \in Codes \cup {"absent"}, n \in BOOLEAN, h \in BOOLEAN, d \in BOOLEAN,
        s \in Series}

\* bodies that come with a non-success status
ErrorObjects ==
    { [error |-> [status |-> "401", title |-> <<"Unauthorized">>, detail |-> <<"bad key">>]],
      [error |-> [title |-> <<"Unauthorized">>]],
      [error |-> <<>>],
      [code |-> "401", message |-> <<"invalid key">>],
      [code |-> "402"],
      <<>> }

RawTexts == { <<"<html>Forbidden</html>">>, <<"proxy: ", "HeFeng API Error", " upstream">> }

Body(raw, json) == [raw |-> raw, json |-> json]

NonObjectBodies ==
    {Body(<<"null">>, JNull), Body(<<"5">>, JPrim(TRUE)), Body(<<"0">>, JPrim(FALSE)),
     Body(<<"[]">>, JArray)}
    \cup {Body(r, JInvalid) : r \in RawTexts}

ObjectBodies(objs) == {Body(<<"{json}">>, JObj(o)) : o \in objs}

Thrown(mentionsUrl) == [kind |-> "throw", mentionsUrl |-> mentionsUrl]
Http(status, body)  == [kind |-> "http", status |-> status, body |-> body]

FailureResponses ==
    {Thrown(b) : b \in BOOLEAN}
    \cup {Http("403", b) : b \in NonObjectBodies \cup ObjectBodies(ErrorObjects)}

GeoResponses ==
    FailureResponses
    \cup {Http("200", b) : b \in NonObjectBodies \cup ObjectBodies(GeoObjects)}

WeatherResponses ==
    FailureResponses
    \cup {Http("200", b) : b \in NonObjectBodies \cup ObjectBodies(WeatherObjects)}

\* response.ok
ResponseOk(resp) == resp.status = "200"


(***************************************************************************)
(* makeHeFengRequest                                                       *)
(***************************************************************************)
UrlEncodeUnit(u) == CASE u = "," -> "%2C"
                      [] u = " " -> "+"
                      [] u = "U+5317" -> "%E5%8C%97"
                      [] u = "U+4EAC" -> "%E4%BA%AC"
                      [] u = "U+3068" -> "%E3%81%A8"
                      [] OTHER -> u

\* new URLSearchParams({location}).toString()
QueryForLog(location) ==
    <<"location=">> \o [i \in 1..Len(location) |-> UrlEncodeUnit(location[i])]

\* v125, v133: the key is a query parameter; v162: it is a header
KeyInQuery == variant \in {"v125", "v133"}

FullUrl(baseUrl, path, location) ==
    <<baseUrl>> \o path \o <<"?">> \o QueryForLog(location)
    \o (IF KeyInQuery THEN <<"&key=", HEFENG_API_KEY>> ELSE <<>>)

\* the URL as the log lines of v125 and v133 print it
MaskedUrl(baseUrl, path, location) ==
    <<baseUrl>> \o path \o <<"?">> \o QueryForLog(location) \o <<"&key=YOUR_API_KEY">>

LoggedUrl(baseUrl, path, location) ==
    IF variant = "v162" THEN FullUrl(baseUrl, path, location)
    ELSE MaskedUrl(baseUrl, path, location)

FetchCall(baseUrl, path, location) ==
    [baseUrl |-> baseUrl, path |-> path, location |-> location,
     url |-> FullUrl(baseUrl, path, location),
     header |-> IF KeyInQuery THEN "" ELSE HEFENG_API_KEY]

Returned(ret, lines) == [ret |-> ret, log |-> lines]

\* the two configuration checks that come before any fetch
ConfiguredMutant(baseUrl) == baseUrl # ""
Configured(baseUrl) == HEFENG_API_KEY # "" /\ baseUrl # ""

NotConfigured(baseUrl) ==
    IF HEFENG_API_KEY = ""
    THEN Returned(JObj([code |-> "500", error |-> <<"API Key not configured">>]),
                  {<<"error: HEFENG_API_KEY is not set">>})
    ELSE Returned(JObj([code |-> "500", error |-> <<"API Base URL not configured">>]),
                  {<<"error: API base URL is not set">>})

\* the line logged right before fetch
RequestLine(baseUrl, path, location) ==
    IF variant = "v162"
    THEN <<"request: ">> \o FullUrl(baseUrl, path, location)
         \o <<" (API Key in X-QW-Api-Key Header)">>
    ELSE <<"request: ">> \o MaskedUrl(baseUrl, path, location)

\* the message of the error fetch() rejects with; the collaborator names the
\* URL it was given when it cannot parse it
FetchErrorMessage(resp, url) ==
    IF resp.mentionsUrl THEN <<"Failed to parse URL from ">> \o url
    ELSE <<"fetch failed">>

HttpErrorMessage(resp) ==
    <<"HTTP error! status: ", resp.status, ", body: ">> \o resp.body.raw

SyntaxErrorMessage == <<"Unexpected token in JSON at position 0">>
NullCodeMessage    == <<"Cannot read properties of null (reading 'code')">>

\* the outer catch block
Caught(message, baseUrl, path, location) ==
    LET line == (IF variant = "v162"
                 THEN <<"request (">> \o FullUrl(baseUrl, path, location)
                 ELSE <<"request (", baseUrl>> \o path)
                \o <<") failed: ">> \o message
    IN  IF variant = "v125"
        THEN Returned(JObj([code |-> "FETCH_ERROR", message |-> message]), {line})
        ELSE IF "HeFeng API Error" \in Range(message)
        THEN Returned(JObj([code |-> "undefined", error |-> message]), {line})
        ELSE Returned(JObj([code |-> "FETCH_ERROR", error |-> message]), {line})

\* the branch for !response.ok
NotOk(resp, baseUrl, path, location) ==
    LET errorBody == resp.body.raw
        parsed    == resp.body.json
        lines     == { <<"HTTP error! status: ", resp.status, ", URL: ">>
                          \o LoggedUrl(baseUrl, path, location),
                       <<"error detail: ">> \o errorBody }
        code      == StrField(parsed, "code")
        message   == TextField(parsed, "message")
        thrown    == Caught(HttpErrorMessage(resp), baseUrl, path, location)
        generic(extra) == Returned(thrown.ret, lines \cup extra \cup thrown.log)
        parseLine == {<<"parsing the error response failed">>}
    IN  IF variant = "v125"
        THEN IF StrTruthy(code)
             THEN Returned(JObj([code |-> code,
                                 error |-> <<"HeFeng API Error", ": ">>
                                     \o (IF message # <<>> THEN message ELSE errorBody)]),
                           lines)
             ELSE generic({})
        ELSE IF parsed.t \in {"invalid", "null"} THEN generic(parseLine)
        ELSE IF IsObj(parsed) /\ Has(parsed.o, "error")
                /\ (Has(parsed.o.error, "detail") \/ Has(parsed.o.error, "title"))
        THEN LET e == parsed.o.error IN
             Returned(JObj([code |-> IF Has(e, "status") THEN e.status ELSE resp.status,
                            error |-> <<"HeFeng API Error", ": ">>
                                \o (IF Has(e, "title") THEN e.title ELSE <<"Unknown Error">>)
                                \o <<". Detail: ">>
                                \o (IF Has(e, "detail") THEN e.detail
                                    ELSE <<"No detail provided.">>)]),
                      lines)
        ELSE IF StrTruthy(code)
        THEN Returned(JObj([code |-> code,
                            error |-> <<"HeFeng API Error", " (Code: ", code, "): ">>
                                \o (IF message # <<>> THEN message ELSE errorBody)]),
                      lines)
        ELSE generic({})

\* the branch for response.ok: response.json() and the check of data.code
Ok(resp, baseUrl, path, location) ==
    LET data == resp.body.json
        code == StrField(data, "code")
        line == {<<"HeFeng API error! Code: ", code, ", URL: ">>
                    \o LoggedUrl(baseUrl, path, location)}
    IN  IF data.t = "invalid" THEN Caught(SyntaxErrorMessage, baseUrl, path, location)
        ELSE IF data.t = "null" THEN Caught(NullCodeMessage, baseUrl, path, location)
        ELSE IF StrTruthy(code) /\ code # "200"
        THEN IF variant = "v125" THEN Returned(data, line)
             ELSE Returned(JObj([code |-> code,
                                 error |-> <<"HeFeng API business error. Code: ", code>>]),
                           line)
        ELSE Returned(data, {})

\* makeHeFengRequest from the point where fetch() has settled
makeHeFengRequest(resp, baseUrl, path, location) ==
    IF resp.kind = "throw"
    THEN Caught(FetchErrorMessage(resp, FullUrl(baseUrl, path, location)),
                baseUrl, path, location)
    ELSE IF ~ResponseOk(resp) THEN NotOk(resp, baseUrl, path, location)
    ELSE Ok(resp, baseUrl, path, location)


(***************************************************************************)
(* fetchLocationDetails / fetchLocationDetailsByName, from the point where *)
(* makeHeFengRequest has returned `response`                               *)
(***************************************************************************)
\* `${x}` of a property that may be missing
Shown(s) == IF s = Undefined THEN "undefined" ELSE s
Field(rec, f) == IF Has(rec, f) THEN rec[f] ELSE "undefined"
\* rec.f || 'N/A'
FieldOrNA(rec, f) == IF Has(rec, f) /\ rec[f] # "" THEN rec[f] ELSE "N/A"

GeoPath == IF variant = "v162" THEN <<"/geo/v2/city/lookup">> ELSE <<"/v2/city/lookup">>

Details(value, lines) == [thrown |-> FALSE, value |-> value, log |-> lines]
Throws(message, lines) == [thrown |-> TRUE, message |-> message, log |-> lines]

InOperatorMessage == <<"Cannot use 'in' operator to search for 'error' in 5">>

HasCandidates(response) ==
    IsObj(response) /\ Has(response.o, "location") /\ Len(response.o.location) > 0

fetchLocationDetails(response, inputLocation) ==
    LET code == StrField(response, "code") IN
    IF variant = "v125"
    THEN IF Truthy(response) /\ code = "200" /\ HasCandidates(response)
         THEN Details(JObj(response.o.location[1]), {})
         ELSE IF Truthy(response) /\ code # "200"
         THEN Details(JNull, {<<"city lookup API error: ", Shown(code), " for city ">>
                                  \o inputLocation \o <<". Message: ">>
                                  \o (IF TextField(response, "message") # <<>>
                                      THEN TextField(response, "message")
                                      ELSE IF TextField(response, "error") # <<>>
                                      THEN TextField(response, "error")
                                      ELSE <<"undefined">>)})
         ELSE Details(JNull, {})
    ELSE IF ~Truthy(response)
         THEN Details(JNull, {<<"lookup: request not sent or configuration error for ">>
                                  \o inputLocation})
    ELSE IF response.t = "prim" THEN Throws(InOperatorMessage, {})
    ELSE IF IsObj(response) /\ Has(response.o, "error")
         THEN Details(JNull, {<<"lookup: API call failed for ">> \o inputLocation
                                  \o <<". Code: ", Shown(code), ", Error: ">>
                                  \o response.o.error})
    ELSE IF code = "200"
         THEN IF HasCandidates(response)
              THEN Details(JObj(response.o.location[1]),
                           {<<"lookup: found ">> \o inputLocation
                               \o <<": ID ", Field(response.o.location[1], "id")>>})
              ELSE Details(JNull, {<<"lookup: code 200 but nothing found for ">>
                                       \o inputLocation})
    ELSE Details(JNull, {<<"lookup: API business error for ">> \o inputLocation
                             \o <<". Code: ", Shown(code)>>})

(***************************************************************************)
(* Texts the handler returns                                               *)
(***************************************************************************)
GeoUrlNotConfiguredText     == <<"error: the geo API base URL is not configured">>
WeatherUrlNotConfiguredText == <<"error: the weather API base URL is not configured">>

NotFoundTextMutant(city_name) ==
    <<"cannot find the location. Check the city name or the API configuration.">>
NotFoundText(city_name) ==
    <<"cannot find location information of \"">> \o city_name \o <<"\"">>
    \o (CASE variant = "v125" -> <<". Check the city name or the API configuration.">>
          [] variant = "v162" -> <<". Give a pinyin/English name, LocationID, Adcode or coordinates and check the API configuration.">>
          [] OTHER -> <<". Check the input, the API configuration or the server log.">>)

LocationTextMutant(loc) ==
    <<"City: ", Field(loc, "name"), "\n",
      "Region: ", Field(loc, "adm2"), ", ", Field(loc, "adm1"), ", ",
                  Field(loc, "country"), "\n",
      "Location ID: ", Field(loc, "id"), "\n",
      "Latitude: ", Field(loc, "lat"), "\n",
      "Longitude: ", Field(loc, "lon")>>
LocationText(loc) ==
    <<"City: ", Field(loc, "name"), "\n",
      "Region: ", FieldOrNA(loc, "adm2"), ", ", FieldOrNA(loc, "adm1"), ", ",
                  FieldOrNA(loc, "country"), "\n",
      "Location ID: ", Field(loc, "id"), "\n",
      "Latitude: ", Field(loc, "lat"), "\n",
      "Longitude: ", Field(loc, "lon")>>

WeatherPathMutant(days) ==
    IF days \in HourlyDays THEN <<"/v7/weather/", "hourly">> ELSE <<"/v7/weather/", days>>
WeatherPath(days) ==
    IF days = "now" THEN <<"/v7/weather/", "now">>
    ELSE IF days \in HourlyDays THEN <<"/v7/weather/", days>>
    ELSE <<"/v7/weather/", days>>

DefaultErrorMessage == <<"no data; check the location name or the API configuration.">>

\* the text for a failed forecast request
FailureText(weatherData, fr) ==
    LET code          == StrField(weatherData, "code")
        apiErrorCode  == IF StrTruthy(code) THEN code ELSE "N/A"
        err           == TextField(weatherData, "error")
        msg           == TextField(weatherData, "message")
        errorMessage  == IF variant = "v125"
                         THEN (IF msg # <<>> THEN msg ELSE IF err # <<>> THEN err
                               ELSE DefaultErrorMessage)
                         ELSE (IF err # <<>> THEN err ELSE IF msg # <<>> THEN msg
                               ELSE DefaultErrorMessage)
        note          == CASE variant = "v125" -> <<>>
                           [] variant = "v162" ->
                                <<" (input \"">> \o fr.rawLocationInput
                                \o <<"\" was used for the query directly)">>
                           [] OTHER ->
                                IF fr.attemptPinyin /\ apiErrorCode # "200"
                                THEN <<" (tried converting \"">> \o fr.rawLocationInput
                                     \o <<"\" to pinyin \"">>
                                     \o convertToPinyin(fr.rawLocationInput)
                                     \o <<"\" for the query)">>
                                ELSE <<>>
    IN  <<"cannot get weather data of ">> \o fr.displayLocation
        \o <<(IF variant = "v125" THEN " (API Code: " ELSE " (API Code/Status: "),
             apiErrorCode, "). ">>
        \o errorMessage \o note

Divider == "------------------------"

NowTextMutant(now, fr) ==
    <<"Location: ">> \o fr.displayLocation \o
    <<"\n", "Observed: ", Field(now, "obsTime"),
      "\n", "Weather: ", Field(now, "text"),
      "\n", "Temperature: ", Field(now, "temp"), "C",
      "\n", "Feels like: ", Field(now, "feelsLike"), "C",
      "\n", "Wind scale: ", Field(now, "windScale"),
      "\n", "Wind direction: ", Field(now, "windDir"),
      "\n", "Humidity: ", Field(now, "humidity"), "%",
      "\n", "Precipitation: ", Field(now, "precip"), "mm",
      "\n", "Pressure: ", Field(now, "pressure"), "hPa",
      "\n", "Visibility: ", Field(now, "vis"), "km">>
NowText(now, fr) ==
    <<"Location: ">> \o fr.displayLocation \o
    <<"\n", "Observed: ", Field(now, "obsTime"),
      "\n", "Weather: ", Field(now, "text"),
      "\n", "Temperature: ", Field(now, "temp"), "C",
      "\n", "Feels like: ", Field(now, "feelsLike"), "C",
      "\n", "Wind direction: ", Field(now, "windDir"),
      "\n", "Wind scale: ", Field(now, "windScale"),
      "\n", "Humidity: ", Field(now, "humidity"), "%",
      "\n", "Precipitation: ", Field(now, "precip"), "mm",
      "\n", "Pressure: ", Field(now, "pressure"), "hPa",
      "\n", "Visibility: ", Field(now, "vis"), "km">>

HourBlock(hour) ==
    <<"Time: ", Field(hour, "fxTime"), "\n",
      "  Weather: ", Field(hour, "text"), ", Temperature: ", Field(hour, "temp"), "C", "\n",
      "  Humidity: ", Field(hour, "humidity"), "%, Precipitation probability: ",
          FieldOrNA(hour, "pop"), "%", "\n",
      "  Wind: ", Field(hour, "windDir"), " ", Field(hour, "windScale"), "\n",
      Divider>>

DayBlock(day) ==
    <<"Date: ", Field(day, "fxDate"), " (sunrise: ", FieldOrNA(day, "sunrise"),
          ", sunset: ", FieldOrNA(day, "sunset"), ")", "\n",
      "  Day: ", Field(day, "textDay"), ", Night: ", Field(day, "textNight"), "\n",
      "  Max: ", Field(day, "tempMax"), "C, Min: ", Field(day, "tempMin"), "C", "\n",
      "  Humidity: ", Field(day, "humidity"), "%, Precipitation: ",
          Field(day, "precip"), "mm", "\n",
      "  Day wind: ", Field(day, "windDirDay"), " ", Field(day, "windScaleDay"), "\n",
      "  Night wind: ", Field(day, "windDirNight"), " ", Field(day, "windScaleNight"), "\n",
      "  UV index: ", Field(day, "uvIndex"), "\n",
      Divider>>

HourlyText(hourly, fr) ==
    <<"Location: ">> \o fr.displayLocation \o <<"\n", fr.days, " hourly forecast:", "\n">>
    \o Join([i \in 1..Len(hourly) |-> HourBlock(hourly[i])], <<"\n">>)

DailyTextMutant(daily, fr) ==
    <<"Location: ">> \o fr.displayLocation \o <<"\n", fr.days, " forecast:", "\n">>
    \o Join([i \in 1..Len(daily) |-> DayBlock(daily[Len(daily) + 1 - i])], <<"\n">>)
DailyText(daily, fr) ==
    <<"Location: ">> \o fr.displayLocation \o <<"\n", fr.days, " forecast:", "\n">>
    \o Join([i \in 1..Len(daily) |-> DayBlock(daily[i])], <<"\n">>)

MalformedText(kind, weatherData, fr, withCode) ==
    (CASE kind = "now" ->
            IF variant = "v125"
            THEN <<"weather data of ">> \o fr.displayLocation
                 \o <<" is malformed or incomplete.">>
            ELSE <<"real-time weather data of ">> \o fr.displayLocation
                 \o <<" is incomplete or invalid.">>
       [] kind = "hourly" ->
            <<"cannot get the hourly forecast of ">> \o fr.displayLocation
            \o <<", or the region has no such data.">>
       [] OTHER ->
            <<"cannot get the ", fr.days, " forecast of ">> \o fr.displayLocation
            \o <<", or the region has no such data.">>)
    \o (IF withCode THEN <<" (Code: ", Shown(StrField(weatherData, "code")), ")">>
        ELSE <<>>)


HasField(v, f) == IsObj(v) /\ Has(v.o, f)

Rendered(text) == [thrown |-> FALSE, text |-> text]
RenderThrows(message) == [thrown |-> TRUE, message |-> message]

\* the success gate of get_weather: TRUE when weatherData is reported as a failure
IsFailure(weatherData) ==
    IF variant = "v125"
    THEN ~Truthy(weatherData) \/ StrField(weatherData, "code") # "200"
    ELSE ~Truthy(weatherData) \/ HasField(weatherData, "error")
         \/ (StrTruthy(StrField(weatherData, "code"))
             /\ StrField(weatherData, "code") # "200")

\* everything the handler does with weatherData once makeHeFengRequest returned
WeatherResult(weatherData, fr) ==
    IF variant # "v125" /\ Truthy(weatherData) /\ weatherData.t = "prim"
    THEN RenderThrows(InOperatorMessage)
    ELSE IF IsFailure(weatherData) THEN Rendered(FailureText(weatherData, fr))
    ELSE IF variant = "v125"
    THEN IF fr.days = "now" /\ HasField(weatherData, "now")
         THEN Rendered(NowText(weatherData.o.now, fr))
         ELSE IF fr.days \in HourlyDays /\ HasField(weatherData, "hourly")
         THEN IF Len(weatherData.o.hourly) = 0
              THEN Rendered(MalformedText("hourly", weatherData, fr, FALSE))
              ELSE Rendered(HourlyText(weatherData.o.hourly, fr))
         ELSE IF HasField(weatherData, "daily")
         THEN IF Len(weatherData.o.daily) = 0
              THEN Rendered(MalformedText("daily", weatherData, fr, FALSE))
              ELSE Rendered(DailyText(weatherData.o.daily, fr))
         ELSE Rendered(MalformedText("now", weatherData, fr, TRUE))
    ELSE IF fr.days = "now"
    THEN IF HasField(weatherData, "now")
         THEN Rendered(NowText(weatherData.o.now, fr))
         ELSE Rendered(MalformedText("now", weatherData, fr, TRUE))
    ELSE IF fr.days \in HourlyDays
    THEN IF HasField(weatherData, "hourly") /\ Len(weatherData.o.hourly) > 0
         THEN Rendered(HourlyText(weatherData.o.hourly, fr))
         ELSE Rendered(MalformedText("hourly", weatherData, fr, TRUE))
    ELSE IF HasField(weatherData, "daily") /\ Len(weatherData.o.daily) > 0
         THEN Rendered(DailyText(weatherData.o.daily, fr))
         ELSE Rendered(MalformedText("daily", weatherData, fr, TRUE))

(***************************************************************************)
(* The CallToolRequestSchema handler                                       *)
(***************************************************************************)
NoOutcome      == [kind |-> "none"]
NoPrevious     == [kind |-> "none"]
Result(text)   == [kind |-> "result", content |-> <<[type |-> "text", text |-> text]>>]
Fault(message) == [kind |-> "fault", message |-> message]

EmptyFrame ==
    [city_name |-> <<>>, rawLocationInput |-> <<>>, days |-> "",
     effectiveLocation |-> <<>>, displayLocation |-> <<>>, attemptPinyin |-> FALSE,
     pinyinName |-> <<>>, lookup |-> "none"]

\* the other handler of SpecInterleave before it has a request
NoSuspended ==
    [replay |-> FALSE, pc |-> "idle", name |-> "", args |-> ArgsUndefined,
     frame |-> EmptyFrame, fetchCalls |-> <<>>, responses |-> <<>>]

\* the tool name the variant's weather branch answers to
WeatherToolName == IF variant = "v162" THEN "get_weather" ELSE "get-weather"
KnownTools      == {WeatherToolName, "get_location_id"}

\* catch (error): a ZodError
CatchZod(issues) ==
    IF variant = "v162"
    THEN [out |-> Result(<<"invalid arguments: ">> \o ZodErrorMessages(issues, "; ")),
          log |-> {<<"argument validation error">>}]
    ELSE [out |-> Fault(<<"invalid arguments: ">> \o ZodErrorMessages(issues, ", ")),
          log |-> {<<"argument validation error">>}]

\* catch (error): any other error
CatchErrorRethrowMutant(n, message) ==
    [out |-> Fault(message), log |-> {<<"tool \"", n, "\" failed: ">> \o message}]
CatchError(n, message) ==
    [out |-> Result(<<"internal error while running tool \"", n, "\": ">> \o message),
     log |-> {<<"tool \"", n, "\" failed: ">> \o message}]

\* the handler returns or throws: the invocation is over
Finish(fr, c, lines) ==
    /\ pc' = "done"
    /\ frame' = fr
    /\ outcome' = c.out
    /\ log' = lines \cup c.log
    /\ fetchCalls' = fetchCalls

Return(fr, text, lines) == Finish(fr, [out |-> Result(text), log |-> {}], lines)

\* the handler is suspended in `await fetch(fullUrl)`
Await(stage, fr, call, lines) ==
    /\ pc' = stage
    /\ frame' = fr
    /\ outcome' = outcome
    /\ log' = lines
    /\ fetchCalls' = Append(fetchCalls, call)

FinishWeatherMutant(n, fr, r, lines) ==
    IF fetchCalls # <<>> /\ Len(fetchCalls) < 3 /\ StrField(r.ret, "code") = "FETCH_ERROR"
    THEN Await("weather", fr, fetchCalls[Len(fetchCalls)], lines \cup r.log)
    ELSE LET w == WeatherResult(r.ret, fr) IN
         IF w.thrown THEN Finish(fr, CatchError(n, w.message), lines \cup r.log)
         ELSE Return(fr, w.text, lines \cup r.log)
\* get_weather from `const weatherData = await makeHeFengRequest(...)` on
FinishWeather(n, fr, r, lines) ==
    LET w == WeatherResult(r.ret, fr) IN
    IF w.thrown THEN Finish(fr, CatchError(n, w.message), lines \cup r.log)
    ELSE Return(fr, w.text, lines \cup r.log)

\* get_weather from the choice of weatherPath to the forecast fetch
StartWeather(n, fr, lines) ==
    LET path  == WeatherPath(fr.days)
        final == IF variant = "v125" THEN {}
                 ELSE {<<"location parameter for the weather API: ">>
                          \o fr.effectiveLocation}
    IN  IF Configured(HEFENG_WEATHER_API_URL)
        THEN Await("weather", fr,
                   FetchCall(HEFENG_WEATHER_API_URL, path, fr.effectiveLocation),
                   lines \cup final
                   \cup {RequestLine(HEFENG_WEATHER_API_URL, path, fr.effectiveLocation)})
        ELSE FinishWeather(n, fr, NotConfigured(HEFENG_WEATHER_API_URL),
                           lines \cup final)

\* the lookup from the return of makeHeFengRequest to its own return
LookupAfter(r, queried) ==
    LET d == fetchLocationDetails(r.ret, queried) IN [d EXCEPT !.log = r.log \cup d.log]

\* locationDetailsFromPinyin && locationDetailsFromPinyin.id
HasId(value) == value # JNull /\ Has(value.o, "id") /\ value.o.id # ""

\* both tools from the return (or throw) of the lookup, d, on
FinishLookup(n, fr, d, lines) ==
    LET all == lines \cup d.log IN
    IF d.thrown
    THEN Finish([fr EXCEPT !.lookup = "threw"], CatchError(n, d.message), all)
    ELSE IF n = "get_location_id"
    THEN IF d.value = JNull
         THEN Return([fr EXCEPT !.lookup = "null"], NotFoundText(fr.city_name), all)
         ELSE Return([fr EXCEPT !.lookup = "found"], LocationText(d.value.o), all)
    ELSE IF HasId(d.value)
         THEN StartWeather(n,
                  [fr EXCEPT !.lookup = "found",
                             !.effectiveLocation = <<d.value.o.id>>],
                  all \cup {<<"pinyin lookup gave LocationID ", d.value.o.id>>})
         ELSE StartWeather(n,
                  [fr EXCEPT !.lookup = IF d.value = JNull THEN "null" ELSE "noid",
                             !.effectiveLocation = fr.pinyinName],
                  all \cup {<<"pinyin lookup gave no LocationID; using ">>
                               \o fr.pinyinName})

\* the lookup from its own URL check to the geocoding fetch
StartLookup(n, fr, queried, lines) ==
    LET looking == IF variant = "v125" THEN {}
                   ELSE {<<"lookup: querying location information for ">> \o queried}
    IN  IF HEFENG_GEO_API_URL = ""
        THEN FinishLookup(n, fr,
                 Details(JNull, {<<"error: HEFENG_GEO_API_URL is not configured">>}),
                 lines)
        ELSE IF Configured(HEFENG_GEO_API_URL)
        THEN Await("geo", fr, FetchCall(HEFENG_GEO_API_URL, GeoPath, queried),
                   lines \cup looking
                   \cup {RequestLine(HEFENG_GEO_API_URL, GeoPath, queried)})
        ELSE FinishLookup(n, fr,
                 LookupAfter(NotConfigured(HEFENG_GEO_API_URL), queried),
                 lines \cup looking)

\* if (name === "get_location_id") { ... }
GetLocationId(n, a) ==
    LET parsed == LocationIdArgumentsSchema(a) IN
    IF ~parsed.ok THEN Finish(EmptyFrame, CatchZod(parsed.issues), {})
    ELSE LET fr == [EmptyFrame EXCEPT !.city_name = parsed.city_name] IN
         IF HEFENG_GEO_API_URL = "" THEN Return(fr, GeoUrlNotConfiguredText, {})
         ELSE StartLookup(n, fr, parsed.city_name, {})

\* else if (name === "get-weather" / "get_weather") { ... }
GetWeather(n, a) ==
    IF HEFENG_WEATHER_API_URL = ""
    THEN Return(EmptyFrame, WeatherUrlNotConfiguredText, {})
    ELSE LET parsed == WeatherArgumentsSchema(a) IN
         IF ~parsed.ok THEN Finish(EmptyFrame, CatchZod(parsed.issues), {})
         ELSE LET fr == [EmptyFrame EXCEPT !.rawLocationInput = parsed.location,
                                           !.days = parsed.days,
                                           !.effectiveLocation = parsed.location,
                                           !.displayLocation = parsed.location]
              IN  IF variant = "v133" /\ containsChinese(parsed.location)
                  THEN LET pinyinName == convertToPinyin(parsed.location) IN
                       StartLookup(n,
                           [fr EXCEPT !.attemptPinyin = TRUE,
                                      !.pinyinName = pinyinName,
                                      !.displayLocation =
                                          parsed.location \o <<" (">> \o pinyinName
                                          \o <<")">>],
                           pinyinName,
                           {<<"Chinese city name detected: ">> \o parsed.location,
                            <<"converted to pinyin: ">> \o pinyinName})
                  ELSE StartWeather(n, fr,
                           IF variant = "v125" THEN {}
                           ELSE {<<"input is used for the weather query as is: ">>
                                    \o parsed.location})

(***************************************************************************)
(* State machine                                                           *)
(***************************************************************************)
StartupLog(v, apiKey, apiUrl) ==
    (IF apiKey # ""
     THEN {IF v = "v162" THEN <<"using the API key from the command line">>
           ELSE <<"using the API key from the command line: ", apiKey>>}
     ELSE {<<"warning: HEFENG_API_KEY not given">>})
    \cup (IF apiUrl # ""
          THEN {<<"using the API URL from the command line: ", apiUrl>>}
          ELSE {<<"warning: HEFENG_WEATHER_API_URL not given">>,
                <<"warning: HEFENG_GEO_API_URL not configured">>})
    \cup {<<"MCP Server running on stdio. Waiting for requests...">>}

Init ==
    /\ variant \in Variants
    /\ HEFENG_API_KEY \in {"", SecretKey}
    /\ HEFENG_WEATHER_API_URL \in {"", ApiUrl}
    /\ HEFENG_GEO_API_URL = HEFENG_WEATHER_API_URL
    /\ pc = "idle"
    /\ name = ""
    /\ args = ArgsUndefined
    /\ frame = EmptyFrame
    /\ fetchCalls = <<>>
    /\ responses = <<>>
    /\ outcome = NoOutcome
    /\ log = StartupLog(variant, HEFENG_API_KEY, HEFENG_WEATHER_API_URL)
    /\ previous = NoPrevious
    /\ suspended = NoSuspended

\* the handler takes request n, a and runs up to its first fetch
Call(n, a) ==
    /\ name' = n
    /\ args' = a
    /\ IF n = "get_location_id" THEN GetLocationId(n, a)
       ELSE IF n = WeatherToolName THEN GetWeather(n, a)
       ELSE Finish(EmptyFrame, CatchError(n, <<"Unknown tool: ", n>>), {})
    /\ UNCHANGED <<config, responses>>

\* the geocoding fetch settles with resp
Geo(resp) ==
    /\ LET call == fetchCalls[Len(fetchCalls)]
           r    == makeHeFengRequest(resp, call.baseUrl, call.path, call.location)
       IN  /\ responses' = Append(responses, resp)
           /\ FinishLookup(name, frame, LookupAfter(r, call.location), {})
    /\ UNCHANGED <<config, name, args>>

\* the forecast fetch settles with resp
Weather(resp) ==
    /\ LET call == fetchCalls[Len(fetchCalls)]
           r    == makeHeFengRequest(resp, call.baseUrl, call.path, call.location)
       IN  /\ responses' = Append(responses, resp)
           /\ FinishWeather(name, frame, r, {})
    /\ UNCHANGED <<config, name, args>>

\* the result (or the fault) goes back to the transport; nothing of the
\* invocation outlives it and the configuration is as it was
ReplyMutant ==
    /\ pc = "done"
    /\ pc' = "idle"
    /\ name' = ""
    /\ args' = ArgsUndefined
    /\ frame' = EmptyFrame
    /\ fetchCalls' = <<>>
    /\ responses' = <<>>
    /\ outcome' = NoOutcome
    /\ log' = {}
    /\ HEFENG_API_KEY' = ""
    /\ UNCHANGED <<variant, HEFENG_WEATHER_API_URL, HEFENG_GEO_API_URL>>
Reply ==
    /\ pc = "done"
    /\ pc' = "idle"
    /\ name' = ""
    /\ args' = ArgsUndefined
    /\ frame' = EmptyFrame
    /\ fetchCalls' = <<>>
    /\ responses' = <<>>
    /\ outcome' = NoOutcome
    /\ log' = {}
    /\ UNCHANGED config

\* a call-tool request arrives
CallTool ==
    /\ pc = "idle"
    /\ \E n \in ToolNames, a \in AllArgs : Call(n, a)
    /\ UNCHANGED <<previous, suspended>>

GeoResponse ==
    /\ pc = "geo"
    /\ \E resp \in GeoResponses : Geo(resp)
    /\ UNCHANGED <<previous, suspended>>

WeatherResponse ==
    /\ pc = "weather"
    /\ \E resp \in WeatherResponses : Weather(resp)
    /\ UNCHANGED <<previous, suspended>>

\* the next request finds the handler idle
Respond ==
    /\ Reply
    /\ UNCHANGED <<previous, suspended>>

Next == CallTool \/ GeoResponse \/ WeatherResponse \/ Respond

Spec == Init /\ [][Next]_vars

(***************************************************************************)
(* The same server with every invocation played twice: the request is sent *)
(* again and upstream gives the answers it gave the first time.            *)
(***************************************************************************)
\* an answer whose arrays have at most MaxRepeatRecords records
Short(resp) ==
    (resp.kind = "http" /\ IsObj(resp.body.json)) =>
        \A f \in {"location", "hourly", "daily"} \cap DOMAIN resp.body.json.o :
            Len(resp.body.json.o[f]) <= MaxRepeatRecords

\* what upstream answers to the next fetch: while playing again, the answer
\* it gave to the same fetch of the invocation before
Upstream(all) ==
    IF previous # NoPrevious /\ Len(responses) < Len(previous.responses)
    THEN {previous.responses[Len(responses) + 1]}
    ELSE {resp \in all : Short(resp)}

\* the request that arrives: while playing again, the request of before
Requests ==
    IF previous # NoPrevious THEN {<<previous.name, previous.args>>}
    ELSE ToolNames \X AllArgs

CallRepeat ==
    /\ pc = "idle"
    /\ \E request \in Requests : Call(request[1], request[2])
    /\ UNCHANGED <<previous, suspended>>

GeoRepeat ==
    /\ pc = "geo"
    /\ \E resp \in Upstream(GeoResponses) : Geo(resp)
    /\ UNCHANGED <<previous, suspended>>

WeatherRepeat ==
    /\ pc = "weather"
    /\ \E resp \in Upstream(WeatherResponses) : Weather(resp)
    /\ UNCHANGED <<previous, suspended>>

RespondRepeat ==
    /\ Reply
    /\ previous' = IF previous = NoPrevious
                   THEN [kind |-> "invocation", name |-> name, args |-> args,
                         responses |-> responses, outcome |-> outcome]
                   ELSE NoPrevious
    /\ UNCHANGED suspended

NextRepeat == CallRepeat \/ GeoRepeat \/ WeatherRepeat \/ RespondRepeat

SpecRepeat == Init /\ [][NextRepeat]_vars

(***************************************************************************)
(* Two invocations on the one event loop.  An invocation runs alone and is *)
(* recorded; it is then played again, and while it waits in `await fetch`  *)
(* a second invocation may run, wait in its own `await fetch`, and give    *)
(* the loop back.  Only one handler runs at a time; each has its own       *)
(* locals; the configuration is shared.                                    *)
(***************************************************************************)
\* the handler that runs is the one of the invocation played again
Replaying == previous # NoPrevious /\ ~suspended.replay

\* sample requests and upstream answers of the interleaved runs
InterleaveRequests ==
    {<<"get_location_id", [t |-> "obj", o |-> [city_name |-> StrArg(TokLatin)]]>>,
     <<"get_location_id", [t |-> "obj", o |-> <<>>]>>,
     <<"frobnicate", ArgsUndefined>>}
    \cup {<<n, [t |-> "obj", o |-> [location |-> StrArg(tok), days |-> StrArg(<<d>>)]]>> :
             n \in {"get_weather", "get-weather"}, tok \in {TokId, TokLatin, TokHan},
             d \in {"now", "3d"}}

InterleaveGeoResponses ==
    {Thrown(FALSE),
     Http("403", Body(<<"{json}">>, JObj([code |-> "401", message |-> <<"invalid key">>]))),
     Http("200", Body(<<"{json}">>,
                      JObj([code |-> "200", location |-> <<LocationRecord("r1")>>])))}

InterleaveWeatherResponses ==
    {Thrown(TRUE),
     Http("200", Body(<<"{json}">>, JObj([code |-> "400"]))),
     Http("200", Body(<<"{json}">>, JObj([code |-> "200", now |-> NowRecord]))),
     Http("200", Body(<<"{json}">>,
                      JObj([code |-> "200", daily |-> <<DailyRecord("r1")>>])))}

\* the request that arrives, and what upstream answers to the next fetch:
\* for the invocation played again, what they were when it ran alone
RequestsInterleaved ==
    IF Replaying THEN {<<previous.name, previous.args>>} ELSE InterleaveRequests

UpstreamInterleaved(all) ==
    IF Replaying /\ Len(responses) < Len(previous.responses)
    THEN {previous.responses[Len(responses) + 1]}
    ELSE all

CallInterleave ==
    /\ pc = "idle"
    /\ \E request \in RequestsInterleaved : Call(request[1], request[2])
    /\ UNCHANGED <<previous, suspended>>

GeoInterleave ==
    /\ pc = "geo"
    /\ \E resp \in UpstreamInterleaved(InterleaveGeoResponses) : Geo(resp)
    /\ UNCHANGED <<previous, suspended>>

WeatherInterleave ==
    /\ pc = "weather"
    /\ \E resp \in UpstreamInterleaved(InterleaveWeatherResponses) : Weather(resp)
    /\ UNCHANGED <<previous, suspended>>

\* the handler that runs returns: the invocation that ran alone is recorded;
\* the round is over when the one played again returns and no other waits
RespondInterleave ==
    /\ Reply
    /\ previous' = IF previous = NoPrevious
                   THEN [kind |-> "invocation", name |-> name, args |-> args,
                         responses |-> responses, outcome |-> outcome]
                   ELSE IF Replaying /\ suspended.pc = "idle" THEN NoPrevious
                   ELSE previous
    /\ UNCHANGED suspended

\* the event loop turns to the other handler: the one that runs waits in
\* `await fetch` or has returned, and each handler keeps its own locals
SwitchMutant ==
    /\ previous # NoPrevious
    /\ pc \in {"idle", "geo", "weather"}
    /\ suspended' = [replay |-> Replaying, pc |-> pc, name |-> name, args |-> args,
                     frame |-> frame, fetchCalls |-> fetchCalls,
                     responses |-> responses]
    /\ pc' = suspended.pc
    /\ name' = suspended.name
    /\ args' = suspended.args
    /\ fetchCalls' = suspended.fetchCalls
    /\ responses' = suspended.responses
    /\ outcome' = NoOutcome
    /\ log' = {}
    /\ UNCHANGED <<config, previous, frame>>
Switch ==
    /\ previous # NoPrevious
    /\ pc \in {"idle", "geo", "weather"}
    /\ suspended' = [replay |-> Replaying, pc |-> pc, name |-> name, args |-> args,
                     frame |-> frame, fetchCalls |-> fetchCalls,
                     responses |-> responses]
    /\ pc' = suspended.pc
    /\ name' = suspended.name
    /\ args' = suspended.args
    /\ frame' = suspended.frame
    /\ fetchCalls' = suspended.fetchCalls
    /\ responses' = suspended.responses
    /\ outcome' = NoOutcome
    /\ log' = {}
    /\ UNCHANGED <<config, previous>>

NextInterleave ==
    CallInterleave \/ GeoInterleave \/ WeatherInterleave \/ RespondInterleave \/ Switch

SpecInterleave == Init /\ [][NextInterleave]_vars


(***************************************************************************)
(* Properties                                                              *)
(***************************************************************************)
Done        == pc = "done"
IsResult   == outcome.kind = "result"
Text        == outcome.content[1].text
KnownCall   == name \in KnownTools
ArgsValid   == IF name = "get_location_id" THEN LocationIdArgumentsSchema(args).ok
               ELSE WeatherArgumentsSchema(args).ok
ArgsIssues  == IF name = "get_location_id" THEN LocationIdArgumentsSchema(args).issues
               ELSE WeatherArgumentsSchema(args).issues
LastCall    == fetchCalls[Len(fetchCalls)]
LastResp    == responses[Len(responses)]
\* an HTTP-success answer whose body is a JSON object
OkObject(resp) == resp.kind = "http" /\ ResponseOk(resp) /\ IsObj(resp.body.json)

\* C1: a call whose tool name the server does not handle ends in a fault
\* (the handler throws), never in a normal result.
C1_UnknownToolFaults ==
    (Done /\ ~KnownCall) => outcome.kind = "fault"

\* C2: arguments that fail schema validation give a normal result whose text
\* lists every failing field path with its reason; the handler does not throw.
C2_ValidationReturnsText ==
    (Done /\ KnownCall /\ ~ArgsValid) =>
        /\ IsResult
        /\ \A i \in 1..Len(ArgsIssues) : Contains(Text, IssueText(ArgsIssues[i]))

\* C3: a call to a known tool with schema-valid arguments never throws and
\* returns a content of exactly one item of type "text", whatever upstream does.
C3_ValidCallReturnsOneText ==
    (Done /\ KnownCall /\ ArgsValid) =>
        /\ IsResult
        /\ Len(outcome.content) = 1
        /\ outcome.content[1].type = "text"

\* C3 witness: the lookup threw on a primitive JSON payload and the call still
\* ended in a text result.
C3_Witness ==
    /\ Done /\ KnownCall /\ ArgsValid
    /\ frame.lookup = "threw"
    /\ LastResp.kind = "http" /\ ResponseOk(LastResp) /\ LastResp.body.json = JPrim(TRUE)
    /\ IsResult

\* C4: with an empty API key no tool call performs any fetch.
C4_NoKeyNoFetch ==
    HEFENG_API_KEY = "" => fetchCalls = <<>>

\* C4 witness: the transliteration path (lookup, then forecast) ran to its end
\* without a key and without a fetch.
C4_Witness ==
    /\ Done /\ HEFENG_API_KEY = "" /\ frame.attemptPinyin
    /\ IsResult /\ Contains(Text, <<"API Key not configured">>)
    /\ fetchCalls = <<>>

\* a piece of text carrying code c (the empty code is carried by any text)
Carries(text, c) == c = "" \/ c \in Range(text)

\* C5: when the forecast endpoint answers HTTP success with a body whose code
\* is present and is not "200", get_weather returns the failure text carrying
\* that code and never renders the payload.
C5_NonSuccessCodeIsFailure ==
    (Done /\ name = WeatherToolName /\ responses # <<>>
          /\ Len(responses) = Len(fetchCalls)
          /\ LastCall.path[1] = "/v7/weather/"
          /\ OkObject(LastResp) /\ Has(LastResp.body.json.o, "code")
          /\ LastResp.body.json.o.code # "200") =>
        /\ IsResult
        /\ Text[1] = "cannot get weather data of "
        /\ Carries(Text, LastResp.body.json.o.code)

\* the geocoding answer is a success with at least one candidate
LookupSucceeded(resp) ==
    /\ OkObject(resp)
    /\ StrField(resp.body.json, "code") = "200"
    /\ HasCandidates(resp.body.json)

\* C6: in the transliterating variant, when the lookup of the romanized token
\* fails in any way or has zero candidates, the forecast request is still
\* issued, with location equal to the romanized token.
C6_FallbackForecastIssued ==
    (Done /\ variant = "v133" /\ name = WeatherToolName /\ frame.attemptPinyin
          /\ responses # <<>> /\ ~LookupSucceeded(responses[1])) =>
        /\ Len(fetchCalls) = 2
        /\ fetchCalls[2].path[1] = "/v7/weather/"
        /\ fetchCalls[2].location = convertToPinyin(frame.rawLocationInput)

\* the lookup failures C7 lists: transport error, non-success status,
\* non-success code, or code "200" with zero candidates
ListedLookupFailure(resp) ==
    \/ resp.kind = "throw"
    \/ resp.kind = "http" /\ ~ResponseOk(resp)
    \/ OkObject(resp) /\ Has(resp.body.json.o, "code")
                      /\ resp.body.json.o.code # "200"
    \/ OkObject(resp) /\ StrField(resp.body.json, "code") = "200"
                      /\ ~HasCandidates(resp.body.json)

\* C7: get_location_id whose lookup fails or finds nothing returns one failure
\* text naming the queried token, after exactly one upstream request.
C7_LookupFailureIsNotFound ==
    (Done /\ name = "get_location_id" /\ responses # <<>>
          /\ ListedLookupFailure(responses[1])) =>
        /\ IsResult
        /\ Text[1] = "cannot find location information of \""
        /\ Contains(Text, args.o.city_name.s)
        /\ Len(fetchCalls) = 1 /\ Len(responses) = 1

\* C7 witness: code "200" with an empty candidate list.
C7_Witness ==
    /\ Done /\ name = "get_location_id" /\ Len(responses) = 1
    /\ OkObject(responses[1])
    /\ responses[1].body.json.o = [code |-> "200", location |-> <<>>]
    /\ IsResult /\ Contains(Text, args.o.city_name.s)

\* C8: the API key never appears in a text returned to the caller.
C8_KeyNotInText ==
    IsResult => SecretKey \notin Range(Text)

\* C9: the API key is never written to the log.
C9_KeyNotInLog ==
    \A line \in log : SecretKey \notin Range(line)

\* the selector the caller asked for: days, or "now" when days is omitted
RequestedDays == IF Has(args.o, "days") THEN args.o.days.s[1] ELSE "now"

\* C10: the forecast request path is /v7/weather/<days> for each selector,
\* and a call that omits days requests /v7/weather/now.
C10_ForecastPath ==
    pc = "weather" =>
        /\ LastCall.path = <<"/v7/weather/", RequestedDays>>
        /\ LastCall.baseUrl = HEFENG_WEATHER_API_URL
        /\ Contains(LastCall.url, <<"/v7/weather/", RequestedDays, "?">>)
        /\ frame.days = RequestedDays

\* C10 witness: a forecast request of a call that omitted days.
C10_Witness ==
    /\ pc = "weather" /\ ~Has(args.o, "days")
    /\ LastCall.path = <<"/v7/weather/", "now">>

\* C11: get_location_id accepts a call only when city_name is a non-empty
\* string: with city_name "" the call ends as a validation failure and no
\* geocoding request is ever issued.
C11_EmptyCityNameRejected ==
    (name = "get_location_id" /\ args.t = "obj" /\ Has(args.o, "city_name")
          /\ args.o.city_name = StrArg(TokEmpty)) =>
        /\ fetchCalls = <<>>
        /\ Done => ~LocationIdArgumentsSchema(args).ok

\* the lines of a text: the runs of pieces between "\n" pieces
RECURSIVE SplitLines(_)
SplitLines(text) ==
    IF "\n" \notin Range(text) THEN <<text>>
    ELSE LET i == CHOOSE k \in 1..Len(text) :
                      text[k] = "\n" /\ \A j \in 1..(k - 1) : text[j] # "\n"
         IN  <<SubSeq(text, 1, i - 1)>> \o SplitLines(SubSeq(text, i + 1, Len(text)))

\* the forecast endpoint answered the last request with HTTP success and a
\* JSON object whose code is "200"
ForecastSuccess ==
    /\ Done /\ name = WeatherToolName /\ responses # <<>>
    /\ Len(responses) = Len(fetchCalls)
    /\ LastCall.path[1] = "/v7/weather/"
    /\ OkObject(LastResp) /\ StrField(LastResp.body.json, "code") = "200"
Payload == LastResp.body.json.o

NowSuccess == ForecastSuccess /\ frame.days = "now" /\ Has(Payload, "now")

NowLabels ==
    <<"Location: ", "Observed: ", "Weather: ", "Temperature: ", "Feels like: ",
      "Wind direction: ", "Wind scale: ", "Humidity: ", "Precipitation: ",
      "Pressure: ", "Visibility: ">>
NowFields ==
    <<"obsTime", "text", "temp", "feelsLike", "windDir", "windScale", "humidity",
      "precip", "pressure", "vis">>

\* the block opens with the location line and goes on with one labelled line
\* per field of the now record, in the fixed order
NowLinesInOrder(lines) ==
    /\ lines[1] = <<"Location: ">> \o frame.displayLocation
    /\ \A i \in 2..Len(lines) :
          i <= Len(NowLabels) =>
              /\ lines[i][1] = NowLabels[i]
              /\ lines[i][2] = Payload.now[NowFields[i - 1]]

\* C12 as stated: for days "now" and a success envelope carrying the now
\* record the output is a block of 10 lines: location, observation time,
\* condition text, temperature, feels-like, wind direction, wind scale,
\* humidity, precipitation, pressure, visibility, in that order.
C12_NowBlockTenLines ==
    NowSuccess =>
        /\ IsResult
        /\ Len(SplitLines(Text)) = 10
        /\ NowLinesInOrder(SplitLines(Text))

\* C12 amended: for days "now" and a success envelope carrying the now record
\* the output is a block of 11 lines: the location line, then the ten
\* labelled lines observation time, condition text, temperature, feels-like,
\* wind direction, wind scale, humidity, precipitation, pressure, visibility,
\* in that order.
C12_NowBlockElevenLines ==
    NowSuccess =>
        /\ IsResult
        /\ Len(SplitLines(Text)) = 11
        /\ NowLinesInOrder(SplitLines(Text))

\* C12 witness: the now record of the scenario rendered for a LocationID.
C12_Witness ==
    /\ NowSuccess /\ args.o.location = StrArg(TokId) /\ IsResult
    /\ Contains(Text, <<"\n", "Visibility: ", "10", "km">>)

DailySuccess ==
    /\ ForecastSuccess /\ frame.days \in Days \ ({"now"} \cup HourlyDays)
    /\ Has(Payload, "daily") /\ Len(Payload.daily) >= 1
HourlySuccess ==
    /\ ForecastSuccess /\ frame.days \in HourlyDays
    /\ Has(Payload, "hourly") /\ Len(Payload.hourly) >= 1

\* how many of the lines are the divider line
Dividers(lines) == Cardinality({i \in 1..Len(lines) : lines[i] = <<Divider>>})

\* after the header come Len(records) blocks of `size` lines each; block i
\* opens with the stamp of record i and closes with the one divider of the block
BlocksInOrder(lines, records, size, stamp) ==
    /\ Len(lines) = 2 + size * Len(records)
    /\ Dividers(lines) = Len(records)
    /\ \A i \in 1..Len(records) :
          /\ lines[2 + size * (i - 1) + 1][2] = records[i][stamp]
          /\ lines[2 + size * (i - 1) + 2][2] = records[i].text
          /\ lines[2 + size * i] = <<Divider>>

\* C13: a daily (likewise an hourly) success envelope with N >= 1 records is
\* rendered as the header naming the location and the selector, followed by
\* exactly N blocks, each closed by one divider line, block i rendering
\* record i: nothing reordered, dropped or duplicated.
C13_BlocksFollowRecords ==
    /\ DailySuccess =>
          /\ IsResult
          /\ SplitLines(Text)[1] = <<"Location: ">> \o frame.displayLocation
          /\ SplitLines(Text)[2] = <<frame.days, " forecast:">>
          /\ BlocksInOrder(SplitLines(Text),
                 [i \in 1..Len(Payload.daily) |->
                     [fxDate |-> Payload.daily[i].fxDate,
                      text |-> Payload.daily[i].textDay]], 8, "fxDate")
    /\ HourlySuccess =>
          /\ IsResult
          /\ SplitLines(Text)[1] = <<"Location: ">> \o frame.displayLocation
          /\ SplitLines(Text)[2] = <<frame.days, " hourly forecast:">>
          /\ BlocksInOrder(SplitLines(Text), Payload.hourly, 5, "fxTime")

\* C13 witness: two daily records delivered latest first, rendered as two
\* blocks in the delivered order.
C13_Witness ==
    /\ DailySuccess /\ IsResult
    /\ Len(Payload.daily) = 2
    /\ Payload.daily[1].fxDate = "2024-01-02" /\ Payload.daily[2].fxDate = "2024-01-01"
    /\ Dividers(SplitLines(Text)) = 2

\* an administrative level as the block shows it: "N/A" when the candidate
\* lacks the level or has it empty
Level(candidate, f) ==
    IF f \in DOMAIN candidate /\ candidate[f] # "" THEN candidate[f] ELSE "N/A"

\* the geocoding endpoint answered get_location_id with a success envelope of
\* at least one candidate
LookupSuccess ==
    /\ Done /\ name = "get_location_id" /\ Len(responses) = 1
    /\ LookupSucceeded(responses[1])
First == responses[1].body.json.o.location[1]

\* C14: when the lookup succeeds with at least one candidate, get_location_id
\* returns a five-line block built from the first candidate only: name; adm2,
\* adm1 and country joined by commas with "N/A" for each missing or empty
\* level; identifier; latitude; longitude.
C14_FiveLinesOfFirstCandidate ==
    LookupSuccess =>
        /\ IsResult
        /\ Len(SplitLines(Text)) = 5
        /\ SplitLines(Text)[1] = <<"City: ", First.name>>
        /\ SplitLines(Text)[2] =
               <<"Region: ", Level(First, "adm2"), ", ", Level(First, "adm1"), ", ",
                 Level(First, "country")>>
        /\ SplitLines(Text)[3] =
               <<"Location ID: ", IF Has(First, "id") THEN First.id ELSE "undefined">>
        /\ SplitLines(Text)[4] = <<"Latitude: ", First.lat>>
        /\ SplitLines(Text)[5] = <<"Longitude: ", First.lon>>

\* C14 witness: two candidates, the first without adm2 and with an empty
\* adm1; the block shows the first with "N/A" for both levels.
C14_Witness ==
    /\ LookupSuccess /\ IsResult
    /\ Len(responses[1].body.json.o.location) = 2
    /\ First.name = "Chaoyang"
    /\ responses[1].body.json.o.location[2].name = "Beijing"
    /\ Contains(Text, <<"Region: ", "N/A", ", ", "N/A", ", ", "China">>)

\* the invocation under way plays the one before again
Again == previous # NoPrevious /\ pc # "idle"

\* C15: the same tool call made twice, with identical arguments and identical
\* upstream responses, gives the identical result: the second invocation asks
\* upstream no more than the first did and ends with the same outcome.
C15_SameCallSameResult ==
    Again =>
        /\ name = previous.name /\ args = previous.args
        /\ pc \in {"geo", "weather"} => Len(responses) < Len(previous.responses)
        /\ Done => /\ responses = previous.responses
                   /\ outcome = previous.outcome

\* C15 witness: a transliterated forecast (lookup, then forecast request)
\* played again to the same text.
C15_Witness ==
    /\ Again /\ Done /\ frame.attemptPinyin /\ Len(responses) = 2
    /\ IsResult /\ previous.outcome.kind = "result"
    /\ Text = previous.outcome.content[1].text

\* C16: for every token that triggers transliteration, tokens mixing Han
\* characters with spaces, upper-case Latin letters or other characters the
\* library passes through included, the output of convertToPinyin is
\* entirely lowercase and has no space character.
C16_PinyinLowercaseNoSpace ==
    frame.attemptPinyin =>
        /\ frame.pinyinName = convertToPinyin(frame.rawLocationInput)
        /\ \A i \in 1..Len(frame.pinyinName) :
              /\ frame.pinyinName[i] # "B"
              /\ frame.pinyinName[i] # " "

\* the token the caller gave: city_name of get_location_id, location of the
\* weather tool
Token == IF name = "get_location_id" THEN args.o.city_name.s ELSE args.o.location.s

\* "<lon>,<lat>": two decimals with a comma between them
IsCoordinates(token) == Len(token) = 3 /\ token[2] = ","

\* what upstream reads back from a percent-encoded unit of the query string
UrlDecodeUnit(u) == CASE u = "%2C" -> ","
                      [] u = "+" -> " "
                      [] u = "%E5%8C%97" -> "U+5317"
                      [] u = "%E4%BA%AC" -> "U+4EAC"
                      [] u = "%E3%81%A8" -> "U+3068"
                      [] OTHER -> u

\* the location parameter upstream reads from a request URL: the decoded
\* units between "location=" and the next parameter
LocationParameter(url) ==
    LET from == CHOOSE i \in 1..Len(url) : url[i] = "location="
        to   == IF "&key=" \in Range(url)
                THEN CHOOSE i \in 1..Len(url) : url[i] = "&key="
                ELSE Len(url) + 1
    IN  [k \in 1..(to - from - 1) |-> UrlDecodeUnit(url[from + k])]

\* C17: for a "<lon>,<lat>" token no transliteration is attempted and the
\* token reaches the upstream location parameter unchanged, in the lookup of
\* get_location_id and in the forecast request of the weather tool alike.
C17_CoordinatesPassUnchanged ==
    (KnownCall /\ ArgsValid /\ IsCoordinates(Token)) =>
        /\ ~frame.attemptPinyin
        /\ Len(fetchCalls) <= 1
        /\ \A i \in 1..Len(fetchCalls) :
              /\ fetchCalls[i].location = Token
              /\ LocationParameter(fetchCalls[i].url) = Token
              /\ fetchCalls[i].path =
                     IF name = "get_location_id" THEN GeoPath
                     ELSE <<"/v7/weather/", frame.days>>

\* C17 witness: the transliterating variant sends the coordinates as they
\* are, percent-encoded, in the forecast request.
C17_Witness ==
    /\ pc = "weather" /\ variant = "v133" /\ IsCoordinates(Token)
    /\ LastCall.location = TokCoord
    /\ Contains(LastCall.url, <<"location=", "116.41", "%2C", "39.92">>)

\* the text carries one of the missing-configuration messages
ReportsConfiguration(text) ==
    \/ "API Key not configured" \in Range(text)
    \/ "API Base URL not configured" \in Range(text)
    \/ text \in {GeoUrlNotConfiguredText, WeatherUrlNotConfiguredText}

\* C18: while the API key or the base URL is not configured, a call to
\* either tool returns a text that carries the missing-configuration
\* message, for get_location_id as for the weather tool, and not a not-found
\* or other unrelated failure text.
C18_ConfigurationErrorReported ==
    (Done /\ KnownCall /\ ArgsValid
          /\ (HEFENG_API_KEY = "" \/ HEFENG_WEATHER_API_URL = ""
                                  \/ HEFENG_GEO_API_URL = "")) =>
        /\ IsResult
        /\ ReportsConfiguration(Text)

\* the statuses and codes the provider gave with a failed answer: the HTTP
\* status of a non-success answer, the status of its error object, the code of
\* its body; the code of a success answer when it is not "200"
ProviderCodes(resp) ==
    IF resp.kind # "http" THEN {}
    ELSE LET json  == resp.body.json
             code  == IF StrTruthy(StrField(json, "code")) THEN {json.o.code} ELSE {}
             error == IF IsObj(json) /\ Has(json.o, "error") /\ json.o.error # <<>>
                         /\ Has(json.o.error, "status")
                      THEN {json.o.error.status} ELSE {}
         IN  IF ~ResponseOk(resp) THEN {resp.status} \cup code \cup error
             ELSE code \ {"200"}

\* C19: whenever the upstream call that ends a tool call failed and the
\* provider gave a status or code with the failure, the text returned to the
\* caller contains that status or code, for the weather tool and for
\* get_location_id alike.
C19_FailureTextCarriesCode ==
    (Done /\ KnownCall /\ responses # <<>> /\ Len(responses) = Len(fetchCalls)
          /\ ProviderCodes(LastResp) # {}) =>
        /\ IsResult
        /\ \E c \in ProviderCodes(LastResp) : c \in Range(Text)

\* a non-success answer whose body has the error-object shape
\* {error: {status, title, detail}}
ErrorObjectShape(resp) ==
    /\ resp.kind = "http" /\ ~ResponseOk(resp) /\ IsObj(resp.body.json)
    /\ Has(resp.body.json.o, "error")
    /\ {"status", "title", "detail"} \subseteq DOMAIN resp.body.json.o.error

\* a non-success answer whose body has the shape {code, message}
CodeMessageShape(resp) ==
    /\ resp.kind = "http" /\ ~ResponseOk(resp) /\ IsObj(resp.body.json)
    /\ {"code", "message"} \subseteq DOMAIN resp.body.json.o

\* the provider's own message in a body of a known shape
ProviderMessage(resp) ==
    IF ErrorObjectShape(resp) THEN resp.body.json.o.error.detail
    ELSE resp.body.json.o.message

\* what makeHeFengRequest returns for the last answer
LastReturn ==
    makeHeFengRequest(LastResp, LastCall.baseUrl, LastCall.path, LastCall.location).ret

\* C20: on a non-success HTTP status, a body of either known shape,
\* {error: {status, title, detail}} or {code, message}, is recognized:
\* makeHeFengRequest returns a failure value with the provider's code or
\* status and the provider's message, not the generic FETCH_ERROR value.
C20_KnownErrorShapesRecognized ==
    (responses # <<>> /\ Len(responses) = Len(fetchCalls)
          /\ (ErrorObjectShape(LastResp) \/ CodeMessageShape(LastResp))) =>
        /\ IsObj(LastReturn)
        /\ StrField(LastReturn, "code") # "FETCH_ERROR"
        /\ StrField(LastReturn, "code") \in ProviderCodes(LastResp) \ {LastResp.status}
        /\ Contains(TextField(LastReturn, "error") \o TextField(LastReturn, "message"),
                    ProviderMessage(LastResp))

\* the text is one of the malformed / unavailable messages
IsMalformedMessage(text) ==
    /\ text[1] \in {"weather data of ", "real-time weather data of ",
                    "cannot get the hourly forecast of ", "cannot get the "}
    /\ Divider \notin Range(text)
    /\ "Observed: " \notin Range(text)

\* the success envelope lacks the field its selector asks for
ShapeMismatch ==
    /\ ForecastSuccess
    /\ \/ frame.days = "now" /\ ~Has(Payload, "now")
       \/ frame.days \in HourlyDays /\ ~Has(Payload, "hourly")
       \/ frame.days \in Days \ ({"now"} \cup HourlyDays) /\ ~Has(Payload, "daily")

\* C21: a success envelope is rendered only in the shape its selector asks
\* for: when the now record (days "now"), the hourly sequence (an hourly
\* selector) or the daily sequence (a daily selector) is absent, the result is
\* the malformed-data message, even when the payload carries the field of
\* another selector.
C21_SelectorShapeAgree ==
    ShapeMismatch => (IsResult /\ IsMalformedMessage(Text))

\* a success envelope whose hourly (daily) selector finds the sequence absent
\* or empty
SequenceMissing ==
    /\ ForecastSuccess
    /\ \/ /\ frame.days \in HourlyDays
          /\ ~Has(Payload, "hourly") \/ Len(Payload.hourly) = 0
       \/ /\ frame.days \in Days \ ({"now"} \cup HourlyDays)
          /\ ~Has(Payload, "daily") \/ Len(Payload.daily) = 0

\* C22: for an hourly or daily selector, a success envelope whose expected
\* sequence is absent or empty gives one malformed / unavailable message that
\* names the location and the provider status code; never a header with
\* zero blocks.
C22_MissingSequenceMessage ==
    SequenceMissing =>
        /\ IsResult
        /\ IsMalformedMessage(Text)
        /\ Len(SplitLines(Text)) = 1
        /\ Contains(Text, frame.displayLocation)
        /\ Payload.code \in Range(Text)

\* C23: the location resolver never throws: for every upstream outcome
\* (transport error, non-success status, invalid JSON, a success body that is
\* JSON null, an array or a primitive) it returns a location record or a
\* failure value.
C23_ResolverNeverThrows ==
    frame.lookup # "threw"

IsGeoCall(call)      == call.path = GeoPath
IsForecastCall(call) == call.path[1] = "/v7/weather/"

\* C24: within one invocation the upstream requests are sequential and never
\* repeated: get_location_id issues at most one geocoding request; the
\* weather tool at most one geocoding request followed by at most one
\* forecast request, the forecast request only after the geocoding request
\* was answered; a failed request is not issued again.
C24_SequentialNoRetry ==
    /\ Len(responses) <= Len(fetchCalls)
    /\ Len(fetchCalls) <= Len(responses) + 1
    /\ pc \in {"geo", "weather"} <=> Len(fetchCalls) = Len(responses) + 1
    /\ Cardinality({i \in 1..Len(fetchCalls) : IsGeoCall(fetchCalls[i])}) <= 1
    /\ Cardinality({i \in 1..Len(fetchCalls) : IsForecastCall(fetchCalls[i])}) <= 1
    /\ \A i \in 1..Len(fetchCalls) :
          /\ IsGeoCall(fetchCalls[i]) \/ IsForecastCall(fetchCalls[i])
          /\ IsGeoCall(fetchCalls[i]) => i = 1
          /\ name = "get_location_id" => IsGeoCall(fetchCalls[i])

\* C24 witness: the lookup failed, the forecast request followed and failed
\* as well, and the invocation ended after these two requests.
C24_Witness ==
    /\ Done /\ name = WeatherToolName
    /\ Len(fetchCalls) = 2 /\ Len(responses) = 2
    /\ IsGeoCall(fetchCalls[1]) /\ IsForecastCall(fetchCalls[2])
    /\ responses[1].kind = "throw" /\ responses[2].kind = "throw"

\* units of a script other than Latin: the Han characters and the kana
NonLatinUnits == HanChars \cup {"U+3068"}
HasNonLatin(token) == \E i \in 1..Len(token) : token[i] \in NonLatinUnits

\* C25: in the transliterating variant, whenever the token has characters of
\* a non-Latin script the first request is the geocoding lookup and it is
\* issued with the romanized form, not with the original token: for
\* get_location_id as for the weather tool, and for every non-Latin script.
C25_NonLatinIsRomanized ==
    (variant = "v133" /\ KnownCall /\ ArgsValid /\ HasNonLatin(Token)
          /\ fetchCalls # <<>>) =>
        /\ IsGeoCall(fetchCalls[1])
        /\ ~HasNonLatin(fetchCalls[1].location)
        /\ containsChinese(Token) => fetchCalls[1].location = convertToPinyin(Token)

\* a non-success answer whose body is no provider error: not JSON, no JSON
\* object, or an object with neither a titled or detailed error nor a code
Unrecognized(resp) ==
    /\ resp.kind = "http" /\ ~ResponseOk(resp)
    /\ IsObj(resp.body.json) =>
          /\ ~StrTruthy(StrField(resp.body.json, "code"))
          /\ Has(resp.body.json.o, "error") =>
                {"title", "detail"} \cap DOMAIN resp.body.json.o.error = {}

\* C26: on a non-success HTTP status with an unrecognized body,
\* makeHeFengRequest returns the generic transport failure: code
\* "FETCH_ERROR" and a message with the HTTP status and the raw body in it,
\* whatever the body text is.
C26_UnrecognizedIsFetchError ==
    (responses # <<>> /\ Len(responses) = Len(fetchCalls)
          /\ Unrecognized(LastResp)) =>
        /\ StrField(LastReturn, "code") = "FETCH_ERROR"
        /\ LET message == TextField(LastReturn, "error")
                              \o TextField(LastReturn, "message")
           IN  /\ LastResp.status \in Range(message)
               /\ Contains(message, LastResp.body.raw)

\* the text of the outcome: of the result, or of the fault the handler threw
OutcomeText == IF IsResult THEN Text ELSE outcome.message

\* C27: validation is the first step of every call to a known tool:
\* schema-invalid arguments always end in the validation-error outcome with
\* no upstream request, whatever the configuration is (an unconfigured base
\* URL included), for the weather tool as for get_location_id.
C27_ValidationFirst ==
    (Done /\ KnownCall /\ ~ArgsValid) =>
        /\ fetchCalls = <<>>
        /\ OutcomeText[1] = "invalid arguments: "

\* the text is a rendering of weather data: the now block, or blocks of an
\* hourly or daily forecast
IsForecast(text) == "Observed: " \in Range(text) \/ Divider \in Range(text)

\* C28: the weather tool renders weather data only if the code of the
\* upstream body is "200": an HTTP-success body whose code is absent, empty
\* or any other value is never rendered as a forecast.
C28_RenderOnlyCode200 ==
    (Done /\ name = WeatherToolName /\ responses # <<>>
          /\ Len(responses) = Len(fetchCalls) /\ IsForecastCall(LastCall)
          /\ LastResp.kind = "http" /\ ResponseOk(LastResp)
          /\ StrField(LastResp.body.json, "code") # "200") =>
        (IsResult => ~IsForecast(Text))

\* C29: no step of an invocation writes the process-wide configuration, and
\* an invocation that is interleaved with another one at the points where
\* they wait for upstream returns what it returned when it ran alone with
\* the same upstream answers.
C29_InterleavedSameResult ==
    /\ [][config' = config]_vars
    /\ []((Replaying /\ pc # "idle") =>
            /\ name = previous.name /\ args = previous.args
            /\ pc \in {"geo", "weather"} => Len(responses) < Len(previous.responses)
            /\ Done => /\ responses = previous.responses
                       /\ outcome = previous.outcome)

\* C29 witness: the invocation played again made its lookup, gave way to a
\* second invocation, and made its forecast request and returned its
\* forecast while the second one waited for its own.
C29_Witness ==
    /\ Replaying /\ Done /\ IsResult
    /\ Len(responses) = 2
    /\ suspended.pc = "weather" /\ suspended.args # args
    /\ outcome = previous.outcome

====
